---- MODULE Spec2Model ----
(***************************************************************************)
(* Question Paper Maker (src/main.py): the session's question store, the   *)
(* Add / Clear / Generate handlers of the Streamlit script, the rendering  *)
(* of the store into the template document, set_table_borders and          *)
(* english_to_telugu.                                                      *)
(*                                                                         *)
(* A Python str is a sequence of one-character strings, so that strip,     *)
(* split, join, truthiness and indexing are computed as Python computes    *)
(* them.  One action is one run of the script: the interaction that        *)
(* triggered it, and everything the script does before it ends.            *)
(***************************************************************************)
EXTENDS Integers, Sequences, FiniteSets, TLC

VARIABLES
    questions,          \* st.session_state.questions
    uploaded_template,  \* the template file uploader's value
    q_type,             \* the question type selectbox
    img_caption,        \* st.session_state.img_caption ("" when the widget is not drawn)
    telugu_text,        \* st.session_state.telugu_text ("" when the widget is not drawn)
    warning,            \* the st.warning shown by the current run
    error,              \* the uncaught exception that ended the current run
    doc,                \* the run's local Document (<<>>: none was opened)
    buffer,             \* the bytes saved by doc.save (<<>>: none)
    download_offered,   \* the run reached st.download_button
    table,              \* set_table_borders' argument (SpecBorders)
    applied,            \* how often set_table_borders ran on it (SpecBorders)
    tl_text,            \* english_to_telugu's argument (SpecTranslit)
    tl_outcome,         \* what the input-tools service did (SpecTranslit)
    tl_called,          \* english_to_telugu has returned (SpecTranslit)
    tl_result           \* its return value (SpecTranslit)

uiVars == <<questions, uploaded_template, q_type, img_caption, telugu_text,
            warning, error, doc, buffer, download_offered>>
borderVars == <<table, applied>>
tlVars == <<tl_text, tl_outcome, tl_called, tl_result>>
vars == <<uiVars, borderVars, tlVars>>

----------------------------------------------------------------------------
(* Bounds of the model *)

\* the store never grows beyond this many questions
MaxQuestions == 2
\* the tables handed to set_table_borders in SpecBorders
MaxRows == 2
MaxCols == 2
\* how often SpecBorders applies set_table_borders to one table
MaxApply == 3

(* Program constants *)

\* st.number_input("Rows", 1, 10, 3): the least and the greatest dimension
MinDim == 1
MaxDim == 10
\* Inches(4)
PictureWidthIn == 4

----------------------------------------------------------------------------
(* Python str *)

IsSpace(c) == c \in {" ", "\t", "\n"}

\* bool(s) of a str
Truthy(s) == s # <<>>

RECURSIVE LStrip(_)
LStrip(s) == IF s = <<>> THEN s
             ELSE IF IsSpace(Head(s)) THEN LStrip(Tail(s)) ELSE s

RECURSIVE RStrip(_)
RStrip(s) == IF s = <<>> THEN s
             ELSE IF IsSpace(s[Len(s)]) THEN RStrip(SubSeq(s, 1, Len(s) - 1)) ELSE s

\* s.strip()
Strip(s) == RStrip(LStrip(s))

\* s.split("\n"): never empty, "" splits into [""]
RECURSIVE SplitLines(_)
SplitLines(s) ==
    IF \A i \in 1..Len(s) : s[i] # "\n" THEN <<s>>
    ELSE LET i == CHOOSE j \in 1..Len(s) :
                      s[j] = "\n" /\ \A k \in 1..(j - 1) : s[k] # "\n"
         IN  <<SubSeq(s, 1, i - 1)>> \o SplitLines(SubSeq(s, i + 1, Len(s)))

\* "\n".join(lines)
RECURSIVE JoinLines(_)
JoinLines(lines) ==
    IF lines = <<>> THEN <<>>
    ELSE IF Len(lines) = 1 THEN lines[1]
    ELSE lines[1] \o <<"\n">> \o JoinLines(Tail(lines))

Digit(d) == <<"0", "1", "2", "3", "4", "5", "6", "7", "8", "9">>[d + 1]

\* str(n) of an int n >= 0, as the f-strings format the running index
RECURSIVE IntToStr(_)
IntToStr(n) == IF n < 10 THEN <<Digit(n)>>
               ELSE IntToStr(n \div 10) \o <<Digit(n % 10)>>

----------------------------------------------------------------------------
(* english_to_telugu: the values response.json() can return, and indexing *)

JStr(s)  == [t |-> "str", v |-> s]
JList(l) == [t |-> "list", v |-> l]
JNum(n)  == [t |-> "num", v |-> n]
JNull    == [t |-> "null", v |-> 0]
JDict    == [t |-> "dict", v |-> 0]

\* the value an expression has when evaluating it raised an exception
Raised == [t |-> "raised", v |-> 0]

\* the script-converted text a response carries
Telugu == <<"T">>

SUCCESS == JStr(<<"S", "U", "C", "C", "E", "S", "S">>)
FAILED  == JStr(<<"F", "A", "I", "L", "E", "D">>)

\* x[i] for an int i >= 0: a list's element, a str's character, IndexError past
\* the end, KeyError on a JSON object (its keys are strings), TypeError on a
\* number or None; an operand that raised raises
PyIndex(x, i) ==
    IF x.t = "list" /\ i < Len(x.v) THEN x.v[i + 1]
    ELSE IF x.t = "str" /\ i < Len(x.v) THEN JStr(<<x.v[i + 1]>>)
    ELSE Raised

\* x == y
PyEq(x, y) == x.t = y.t /\ x.v = y.v

\* requests.get raised / response.json() raised / response.json() returned body
NetworkError   == [kind |-> "network_error", body |-> JNull]
NotJson        == [kind |-> "not_json", body |-> JNull]
JsonBody(body) == [kind |-> "json", body |-> body]

english_to_telugu(text, outcome) ==
    IF outcome.kind # "json" THEN JStr(text)
    ELSE LET result == outcome.body
             status == PyIndex(result, 0)
             first  == PyIndex(PyIndex(PyIndex(PyIndex(result, 1), 0), 1), 0)
         IN  IF status = Raised THEN JStr(text)
             ELSE IF PyEq(status, SUCCESS)
                  THEN (IF first = Raised THEN JStr(text) ELSE first)
                  ELSE JStr(text)

\* ["SUCCESS", [[<input>, candidates]]]
SuccessWith(candidates) ==
    JsonBody(JList(<<SUCCESS, JList(<<JList(<<JStr(<<"a">>), candidates>>)>>)>>))

\* what the service can do on one call
Outcomes ==
    { NetworkError, NotJson,
      JsonBody(JNull), JsonBody(JNum(5)), JsonBody(JDict), JsonBody(JList(<<>>)),
      JsonBody(SUCCESS),
      JsonBody(JList(<<FAILED>>)),
      JsonBody(JList(<<FAILED, JList(<<JList(<<JStr(<<"a">>), JList(<<JStr(Telugu)>>)>>)>>)>>)),
      JsonBody(JList(<<SUCCESS>>)),
      JsonBody(JList(<<SUCCESS, JList(<<>>)>>)),
      JsonBody(JList(<<SUCCESS, JList(<<JStr(<<"a">> \o Telugu)>>)>>)),
      SuccessWith(JList(<<>>)),
      SuccessWith(JStr(Telugu \o <<"x">>)),
      SuccessWith(JList(<<JNum(5)>>)),
      SuccessWith(JList(<<JStr(Telugu)>>)) }

----------------------------------------------------------------------------
(* set_table_borders: a table is its rows, a row its cells, a cell its text *)
(* and the children of its w:tcPr element, in document order              *)

Edges == <<"top", "left", "bottom", "right">>

\* <w:EDGE w:val="single" w:sz="12" w:space="0" w:color="000000"/>
EdgeElem(edge) ==
    [tag |-> edge, val |-> "single", sz |-> "12", space |-> "0", color |-> "000000"]

\* set_table_borders with the loop over the edges stopping one edge early
ThreeEdgeBorders ==
    [tag |-> "tcBorders", children |-> [k \in 1..(Len(Edges) - 1) |-> EdgeElem(Edges[k])]]

\* the w:tcBorders element the loop over the four edges builds
NewTcBorders ==
    [tag |-> "tcBorders", children |-> [k \in 1..Len(Edges) |-> EdgeElem(Edges[k])]]

\* <w:tcW/>, which a cell of a new table carries
TcW == [tag |-> "tcW", children |-> <<>>]

\* tcPr.append(tcBorders) on one cell
BorderCell(cell) == [cell EXCEPT !.tcPr = Append(@, NewTcBorders)]

set_table_borders(tbl) ==
    [r \in 1..Len(tbl) |-> [c \in 1..Len(tbl[r]) |-> BorderCell(tbl[r][c])]]

----------------------------------------------------------------------------
(* The document: a sequence of blocks *)

Para(text)   == [kind |-> "p", text |-> text]
Picture(img) == [kind |-> "pic", image |-> img, width_in |-> PictureWidthIn]
Tbl(rows)    == [kind |-> "tbl", rows |-> rows]

\* doc.add_paragraph(text)
add_paragraph(d, text) == Append(d, Para(text))

\* a cell of doc.add_table: empty text, a w:tcPr holding w:tcW
NewCell == [text |-> <<>>, tcPr |-> <<TcW>>]

\* "\nQuestions:\n"
QuestionsHeader == <<"\n", "Q", "u", "e", "s", "t", "i", "o", "n", "s", ":", "\n">>
\* ". Match the Following:"
MatchHeader == <<".", " ", "M", "a", "t", "c", "h", " ", "t", "h", "e", " ",
                 "F", "o", "l", "l", "o", "w", "i", "n", "g", ":">>
\* "[   ]"
Placeholder == <<"[", " ", " ", " ", "]">>

Max(a, b) == IF a >= b THEN a ELSE b

\* the picture-embedding step succeeds on these bytes only
GoodImage == "photo.png"
BadImage  == "broken.png"
Decodable(image) == image = GoodImage

\* one step of the enumerate loop: what it made of the document, and whether it
\* ran to its end (ok) or raised
Step(d, ok) == [doc |-> d, ok |-> ok]

RenderText(d, i, q) ==
    Step(add_paragraph(d, IntToStr(i) \o <<".", " ">> \o q.content), TRUE)

\* the image branch swallowing the embedding error and going on
RenderImageSkipBad(d, i, q) ==
    LET d1 == add_paragraph(d, IntToStr(i) \o <<".">>)
        d2 == Append(d1, Picture(q.image))
    IN  IF ~Decodable(q.image) THEN Step(d1, TRUE)
        ELSE IF Truthy(q.caption) THEN Step(add_paragraph(d2, q.caption), TRUE)
        ELSE Step(d2, TRUE)

\* the image branch without its test of the caption
RenderImageAlwaysCaption(d, i, q) ==
    LET d1 == add_paragraph(d, IntToStr(i) \o <<".">>)
        d2 == Append(d1, Picture(q.image))
    IN  IF ~Decodable(q.image) THEN Step(d1, FALSE)
        ELSE Step(add_paragraph(d2, q.caption), TRUE)

RenderImage(d, i, q) ==
    LET d1 == add_paragraph(d, IntToStr(i) \o <<".">>)
        d2 == Append(d1, Picture(q.image))
    IN  IF ~Decodable(q.image) THEN Step(d1, FALSE)
        ELSE IF Truthy(q.caption) THEN Step(add_paragraph(d2, q.caption), TRUE)
        ELSE Step(d2, TRUE)

\* the match branch writing the placeholder where a list has run out
MatchCellTextPadded(q, r, c) ==
    IF c = 1 THEN (IF r <= Len(q.left) THEN q.left[r] ELSE <<"[", " ", " ", " ", "]">>)
    ELSE IF c = 2 THEN <<"[", " ", " ", " ", "]">>
    ELSE (IF r <= Len(q.right) THEN q.right[r] ELSE <<"[", " ", " ", " ", "]">>)

\* the text the match branch leaves in cell (r, c), both counted from 1
MatchCellText(q, r, c) ==
    IF c = 1 THEN (IF r <= Len(q.left) THEN q.left[r] ELSE NewCell.text)
    ELSE IF c = 2 THEN Placeholder
    ELSE (IF r <= Len(q.right) THEN q.right[r] ELSE NewCell.text)

RenderMatch(d, i, q) ==
    LET d1   == add_paragraph(d, IntToStr(i) \o MatchHeader)
        rows == Max(Len(q.left), Len(q.right))
        t    == [r \in 1..rows |->
                    [c \in 1..3 |-> [NewCell EXCEPT !.text = MatchCellText(q, r, c)]]]
    IN  Step(Append(d1, Tbl(t)), TRUE)

\* the table branch writing the cell's content as it is
CellTextVerbatim(v) == v

\* q["data"][r][c] if q["data"][r][c] else " "
CellText(v) == IF Truthy(v) THEN v ELSE <<" ">>

RenderTable(d, i, q) ==
    LET d1 == add_paragraph(d, IntToStr(i) \o <<".">>)
        t  == [r \in 1..q.rows |->
                  [c \in 1..q.cols |-> [NewCell EXCEPT !.text = CellText(q.data[r][c])]]]
    IN  Step(Append(d1, Tbl(set_table_borders(t))), TRUE)

\* the if / elif chain on q["type"], for question q with running index i
RenderVariant(d, i, q) ==
    IF q.type = "text" THEN RenderText(d, i, q)
    ELSE IF q.type = "image" THEN RenderImage(d, i, q)
    ELSE IF q.type = "match" THEN RenderMatch(d, i, q)
    ELSE IF q.type = "table" THEN RenderTable(d, i, q)
    ELSE Step(d, TRUE)

\* the loop with enumerate(questions), counting from 0
RenderQuestionZeroBased(d, i, q) ==
    LET s == RenderVariant(d, i - 1, q)
    IN  IF s.ok THEN Step(add_paragraph(s.doc, <<>>), TRUE) ELSE s

\* the body of the enumerate loop: the chain, then doc.add_paragraph("")
RenderQuestion(d, i, q) ==
    LET s == RenderVariant(d, i, q)
    IN  IF s.ok THEN Step(add_paragraph(s.doc, <<>>), TRUE) ELSE s

\* for i, q in enumerate(qs, 1), from index i on; an exception ends the loop
RECURSIVE RenderFrom(_, _, _)
RenderFrom(d, qs, i) ==
    IF i > Len(qs) THEN Step(d, TRUE)
    ELSE LET s == RenderQuestion(d, i, qs[i])
         IN  IF s.ok THEN RenderFrom(s.doc, qs, i + 1) ELSE s

\* Document(template), the header paragraph and the loop
Assemble(template, qs) ==
    RenderFrom(add_paragraph(template.body, QuestionsHeader), qs, 1)

----------------------------------------------------------------------------
(* What the user can enter *)

\* the template uploader: nothing, a file that is no document, a document
NoTemplate   == [present |-> FALSE, valid |-> FALSE, body |-> <<>>]
BadTemplate  == [present |-> TRUE, valid |-> FALSE, body |-> <<>>]
GoodTemplate == [present |-> TRUE, valid |-> TRUE,
                 body |-> <<Para(<<"S", "c", "h", "o", "o", "l">>), Para(<<>>)>>]
Templates    == {NoTemplate, BadTemplate, GoodTemplate}

QuestionTypes == {"Text", "Image", "Match the Following", "Answer Table"}
\* the types whose form draws the text area with key telugu_text
TeluguTypes   == {"Text", "Match the Following"}

TextInputs    == {<<>>, <<"a">>}
CaptionInputs == {<<>>, <<"c">>}
TeluguInputs  == {<<>>, <<"a">>}
\* the image uploader: "" is no file
NoFile        == ""
ImageInputs   == {NoFile, GoodImage, BadImage}
LeftInputs    == {<<>>, <<" ">>, <<"a">>}
RightInputs   == {<<>>, <<" ">>, <<" ", "x", "\n", "\n", "y", " ">>}

\* the number inputs and the grid of text inputs of the Answer Table form
TableForms ==
    { [rows |-> 1, cols |-> 2, cells |-> << << <<" ", " ">>, <<"a">> >> >>],
      [rows |-> 2, cols |-> 2, cells |-> << << <<"a">>, <<>> >>, << <<>>, <<"d">> >> >>] }
TableInputs ==
    { f \in TableForms : f.rows \in MinDim..MaxDim /\ f.cols \in MinDim..MaxDim }

----------------------------------------------------------------------------
(* question_data, per question type *)

\* question_data = None
NoData == [type |-> "none"]

TextData(text_q) ==
    IF Truthy(text_q) THEN [type |-> "text", content |-> text_q] ELSE NoData

ImageData(img_file, caption) ==
    IF img_file # NoFile
    THEN [type |-> "image", image |-> img_file, caption |-> caption]
    ELSE NoData

\* [x.strip() for x in s.split("\n") if x.strip()]
ItemList(s) ==
    LET lines    == SplitLines(s)
        stripped == [k \in 1..Len(lines) |-> Strip(lines[k])]
    IN  SelectSeq(stripped, Truthy)

MatchData(left, right) ==
    IF Truthy(left) /\ Truthy(right)
    THEN [type |-> "match", left |-> ItemList(left), right |-> ItemList(right)]
    ELSE NoData

TableData(form) ==
    [type |-> "table", rows |-> form.rows, cols |-> form.cols,
     data |-> [r \in 1..form.rows |-> [c \in 1..form.cols |-> form.cells[r][c]]]]

\* the values question_data can have when the script reaches the Add button
question_data ==
    IF q_type = "Text" THEN {TextData(x) : x \in TextInputs}
    ELSE IF q_type = "Image" THEN {ImageData(f, img_caption) : f \in ImageInputs}
    ELSE IF q_type = "Match the Following"
         THEN {MatchData(l, r) : l \in LeftInputs, r \in RightInputs}
    ELSE {TableData(f) : f \in TableInputs}

----------------------------------------------------------------------------
(* The script's runs *)

FillWarning     == "Please fill the question details first."
TemplateWarning == "Please upload the template first."
EmptyWarning    == "Please add at least one question."

\* what a run shows and leaves when it ends
RunEnds(w, e, d, b, o) ==
    /\ warning' = w
    /\ error' = e
    /\ doc' = d
    /\ buffer' = b
    /\ download_offered' = o
    /\ UNCHANGED <<borderVars, tlVars>>

\* a run that warns of nothing, raises nothing and generates nothing
Quiet == RunEnds("", "", <<>>, <<>>, FALSE)

\* the values the variables of the other specifications keep
BorderIdle == table = <<>> /\ applied = 0
TlIdle     == tl_text = <<>> /\ tl_outcome = NetworkError /\ tl_called = FALSE
              /\ tl_result = JNull

\* if "questions" not in st.session_state: st.session_state.questions = []
UIInit ==
    /\ questions = <<>>
    /\ uploaded_template = NoTemplate
    /\ q_type = "Text"
    /\ img_caption = <<>>
    /\ telugu_text = <<>>
    /\ warning = ""
    /\ error = ""
    /\ doc = <<>>
    /\ buffer = <<>>
    /\ download_offered = FALSE

UploadTemplate(f) ==
    /\ f # uploaded_template
    /\ uploaded_template' = f
    /\ Quiet
    /\ UNCHANGED <<questions, q_type, img_caption, telugu_text>>

\* a widget that a run does not draw loses its session state
SelectType(t) ==
    /\ t # q_type
    /\ q_type' = t
    /\ img_caption' = <<>>
    /\ telugu_text' = IF t \in TeluguTypes /\ q_type \in TeluguTypes
                      THEN telugu_text ELSE <<>>
    /\ Quiet
    /\ UNCHANGED <<questions, uploaded_template>>

TypeCaption(c) ==
    /\ q_type = "Image"
    /\ c # img_caption
    /\ img_caption' = c
    /\ Quiet
    /\ UNCHANGED <<questions, uploaded_template, q_type, telugu_text>>

TypeTelugu(s) ==
    /\ q_type \in TeluguTypes
    /\ s # telugu_text
    /\ telugu_text' = s
    /\ Quiet
    /\ UNCHANGED <<questions, uploaded_template, q_type, img_caption>>

\* what english_to_telugu can return for text, over everything the service can do
Conversions(text) == {english_to_telugu(text, o) : o \in Outcomes}

\* the Convert to Telugu button's callback: a line the service converts to
\* something that is no str makes join raise
convert_to_telugu ==
    /\ q_type \in TeluguTypes
    /\ IF Truthy(telugu_text)
       THEN LET lines == SplitLines(telugu_text)
                n     == Len(lines)
            IN  \E conv \in [1..n -> UNION {Conversions(lines[k]) : k \in 1..n}] :
                   /\ \A k \in 1..n : conv[k] \in Conversions(lines[k])
                   /\ IF \A k \in 1..n : conv[k].t = "str"
                      THEN /\ telugu_text' = JoinLines([k \in 1..n |-> conv[k].v])
                           /\ Quiet
                      ELSE /\ telugu_text' = telugu_text
                           /\ RunEnds("", "join", <<>>, <<>>, FALSE)
       ELSE /\ telugu_text' = telugu_text
            /\ Quiet
    /\ UNCHANGED <<questions, uploaded_template, q_type, img_caption>>

\* the Telugu Caption button: the assignment to the session state of a widget the
\* run has already drawn either takes effect or raises
TeluguCaption ==
    /\ q_type = "Image"
    /\ IF Truthy(img_caption)
       THEN \E conv \in Conversions(img_caption) :
               \/ /\ conv.t = "str"
                  /\ img_caption' = conv.v
                  /\ Quiet
               \/ /\ img_caption' = img_caption
                  /\ RunEnds("", "session_state", <<>>, <<>>, FALSE)
       ELSE /\ img_caption' = img_caption
            /\ Quiet
    /\ UNCHANGED <<questions, uploaded_template, q_type, telugu_text>>

\* the Add Question button
AddQuestion ==
    /\ \E qd \in question_data :
          IF qd # NoData
          THEN /\ Len(questions) < MaxQuestions
               /\ questions' = Append(questions, qd)
               /\ Quiet
          ELSE /\ questions' = questions
               /\ RunEnds(FillWarning, "", <<>>, <<>>, FALSE)
    /\ UNCHANGED <<uploaded_template, q_type, img_caption, telugu_text>>

\* Clear All dropping the last question only
ClearAllPopsLast ==
    /\ questions' = SubSeq(questions, 1, Len(questions) - 1)
    /\ Quiet
    /\ UNCHANGED <<uploaded_template, q_type, img_caption, telugu_text>>

\* the Clear All button
ClearAll ==
    /\ questions' = <<>>
    /\ Quiet
    /\ UNCHANGED <<uploaded_template, q_type, img_caption, telugu_text>>

\* the Preview & Download DOCX button
Generate ==
    /\ IF ~uploaded_template.present
       THEN RunEnds(TemplateWarning, "", <<>>, <<>>, FALSE)
       ELSE IF questions = <<>>
       THEN RunEnds(EmptyWarning, "", <<>>, <<>>, FALSE)
       ELSE IF ~uploaded_template.valid
       THEN RunEnds("", "Document", <<>>, <<>>, FALSE)
       ELSE LET s == Assemble(uploaded_template, questions)
            IN  IF s.ok
                THEN RunEnds("", "", s.doc, s.doc, TRUE)
                ELSE RunEnds("", "add_picture", s.doc, <<>>, FALSE)
    /\ UNCHANGED <<questions, uploaded_template, q_type, img_caption, telugu_text>>

Next ==
    \/ \E f \in Templates : UploadTemplate(f)
    \/ \E t \in QuestionTypes : SelectType(t)
    \/ \E c \in CaptionInputs : TypeCaption(c)
    \/ \E s \in TeluguInputs : TypeTelugu(s)
    \/ convert_to_telugu
    \/ TeluguCaption
    \/ AddQuestion
    \/ ClearAll
    \/ Generate

Init == UIInit /\ BorderIdle /\ TlIdle
Spec == Init /\ [][Next]_vars

----------------------------------------------------------------------------
(* set_table_borders on its own: applied again and again to one table *)

\* the cells set_table_borders can meet: get_or_add_tcPr adds a missing w:tcPr
BorderCells == {[text |-> <<>>, tcPr |-> <<>>], NewCell}

BorderTables ==
    UNION { [1..r -> [1..c -> BorderCells]] : r \in 1..MaxRows, c \in 1..MaxCols }

BorderInit == table \in BorderTables /\ applied = 0

ApplyBorders ==
    /\ applied < MaxApply
    /\ table' = set_table_borders(table)
    /\ applied' = applied + 1
    /\ UNCHANGED <<uiVars, tlVars>>

InitBorders == UIInit /\ BorderInit /\ TlIdle
NextBorders == ApplyBorders
SpecBorders == InitBorders /\ [][NextBorders]_vars

----------------------------------------------------------------------------
(* english_to_telugu on its own: one call, on any text, with any outcome *)

TlTexts == {<<>>, <<" ">>, <<"a">>, <<"a", " ", "b">>, Telugu}

TlInit ==
    /\ tl_text \in TlTexts
    /\ tl_outcome \in Outcomes
    /\ tl_called = FALSE
    /\ tl_result = JNull

CallTransliterate ==
    /\ ~tl_called
    /\ tl_result' = english_to_telugu(tl_text, tl_outcome)
    /\ tl_called' = TRUE
    /\ UNCHANGED <<tl_text, tl_outcome, uiVars, borderVars>>

InitTranslit == UIInit /\ BorderIdle /\ TlInit
NextTranslit == CallTransliterate
SpecTranslit == InitTranslit /\ [][NextTranslit]_vars

----------------------------------------------------------------------------
(* Reading the saved document back *)

TemplateLen == Len(uploaded_template.body)

\* the blocks of the saved document that follow the template's
Appended == SubSeq(buffer, TemplateLen + 1, Len(buffer))

IsSeparator(b) == b.kind = "p" /\ b.text = <<>>

\* the runs of blocks that the empty paragraphs end
RECURSIVE EntriesOf(_)
EntriesOf(bs) ==
    IF bs = <<>> THEN <<>>
    ELSE IF \E i \in 1..Len(bs) : IsSeparator(bs[i])
    THEN LET i == CHOOSE j \in 1..Len(bs) :
                      IsSeparator(bs[j]) /\ \A k \in 1..(j - 1) : ~IsSeparator(bs[k])
         IN  <<SubSeq(bs, 1, i - 1)>> \o EntriesOf(SubSeq(bs, i + 1, Len(bs)))
    ELSE <<bs>>

\* the entries of the saved document: what follows the header paragraph
Entries == IF Appended = <<>> THEN <<>> ELSE EntriesOf(Tail(Appended))

\* entry k is the rendering of question k: a paragraph and a table
IsTableEntry(k) ==
    /\ k <= Len(Entries)
    /\ Len(Entries[k]) = 2
    /\ Entries[k][1].kind = "p"
    /\ Entries[k][2].kind = "tbl"

HasPrefix(s, p) == Len(s) >= Len(p) /\ SubSeq(s, 1, Len(p)) = p

IsTcBorders(e) == e.tag = "tcBorders"

\* the w:tcBorders children of a cell's w:tcPr
BordersOf(cell) == SelectSeq(cell.tcPr, IsTcBorders)

\* whitespace-only, the empty string included
IsBlank(v) == \A i \in 1..Len(v) : IsSpace(v[i])

----------------------------------------------------------------------------
(* Claims *)

\* C1: after any number n >= 1 of applications of set_table_borders, every cell's
\* properties hold exactly one tcBorders element, with exactly the four edges
\* top, left, bottom, right: a second application changes nothing.
C1_BordersIdempotent ==
    applied >= 1 =>
        \A r \in 1..Len(table) : \A c \in 1..Len(table[r]) :
            /\ Len(BordersOf(table[r][c])) = 1
            /\ [k \in 1..Len(BordersOf(table[r][c])[1].children) |->
                    BordersOf(table[r][c])[1].children[k].tag] = Edges

C3_FailFast ==
    /\ (buffer # <<>> \/ download_offered) =>
          /\ uploaded_template.present
          /\ uploaded_template.valid
          /\ questions # <<>>
          /\ \A k \in 1..Len(questions) :
                questions[k].type = "image" => Decodable(questions[k].image)
          /\ warning = "" /\ error = ""
          /\ buffer = doc
    /\ (warning \in {TemplateWarning, EmptyWarning} \/ error # "") =>
          buffer = <<>> /\ ~download_offered
    /\ download_offered => buffer # <<>>

\* the embedding error ended a run that had already rendered a question
C3_Witness ==
    /\ error = "add_picture"
    /\ buffer = <<>>
    /\ ~download_offered
    /\ Len(doc) > TemplateLen + 2

\* C4: in a saved document the entries are as many as the stored questions, and
\* the k-th entry opens with the paragraph that starts with "k.", for every mix
\* of question types and whatever was added and cleared before.
C4_Numbering ==
    download_offered =>
        /\ Len(Entries) = Len(questions)
        /\ \A k \in 1..Len(Entries) :
              /\ Entries[k] # <<>>
              /\ Entries[k][1].kind = "p"
              /\ HasPrefix(Entries[k][1].text, IntToStr(k) \o <<".">>)

\* a saved document of two questions of different types
C4_Witness ==
    /\ download_offered
    /\ Len(questions) >= 2
    /\ questions[1].type # questions[2].type

\* C5: the table of a Match question with m left and n right items has max(m, n)
\* rows of 3 cells; in row r the middle cell is "[   ]", the first is left[r] when
\* r is within the left list and empty otherwise, the third likewise on the right.
C5_MatchTable ==
    download_offered =>
        \A k \in 1..Len(questions) :
            questions[k].type = "match" =>
                LET m == Len(questions[k].left)
                    n == Len(questions[k].right)
                IN  /\ IsTableEntry(k)
                    /\ Len(Entries[k][2].rows) = (IF m >= n THEN m ELSE n)
                    /\ \A r \in 1..Len(Entries[k][2].rows) :
                          LET row == Entries[k][2].rows[r]
                          IN  /\ Len(row) = 3
                              /\ row[2].text = <<"[", " ", " ", " ", "]">>
                              /\ row[1].text = (IF r <= m THEN questions[k].left[r] ELSE <<>>)
                              /\ row[3].text = (IF r <= n THEN questions[k].right[r] ELSE <<>>)

\* a saved Match question whose left list is the shorter, and not empty
C5_Witness ==
    /\ download_offered
    /\ \E k \in 1..Len(questions) :
          /\ questions[k].type = "match"
          /\ Len(questions[k].left) >= 1
          /\ Len(questions[k].left) < Len(questions[k].right)

\* C6: in a saved document a cell carries a border override exactly when it is a
\* cell of an Answer Table: every cell of the r x c table of an Answer Table
\* question has the four edges top, left, bottom, right set to single, size 12,
\* space 0, colour 000000, and no cell of a Match table has a tcBorders element.
C6_BordersOnlyOnAnswerTables ==
    download_offered =>
        \A k \in 1..Len(questions) :
            /\ questions[k].type = "table" =>
                  /\ IsTableEntry(k)
                  /\ Len(Entries[k][2].rows) = questions[k].rows
                  /\ \A r \in 1..Len(Entries[k][2].rows) :
                        /\ Len(Entries[k][2].rows[r]) = questions[k].cols
                        /\ \A c \in 1..Len(Entries[k][2].rows[r]) :
                              LET b == BordersOf(Entries[k][2].rows[r][c])
                              IN  /\ Len(b) = 1
                                  /\ \A e \in {"top", "left", "bottom", "right"} :
                                        \E j \in 1..Len(b[1].children) :
                                           b[1].children[j] =
                                              [tag |-> e, val |-> "single", sz |-> "12",
                                               space |-> "0", color |-> "000000"]
            /\ questions[k].type = "match" =>
                  /\ IsTableEntry(k)
                  /\ \A r \in 1..Len(Entries[k][2].rows) :
                        \A c \in 1..Len(Entries[k][2].rows[r]) :
                           BordersOf(Entries[k][2].rows[r][c]) = <<>>

\* a saved document with an Answer Table and a Match table that has rows
C6_Witness ==
    /\ download_offered
    /\ \E k \in 1..Len(questions) : questions[k].type = "table"
    /\ \E k \in 1..Len(questions) :
          questions[k].type = "match" /\ questions[k].left # <<>>

\* the blocks C7 counts for one question, without its separator
BlocksOf(q) ==
    IF q.type = "text" THEN 1
    ELSE IF q.type = "image" THEN (IF q.caption # <<>> THEN 3 ELSE 2)
    ELSE 2

RECURSIVE SumBlocks(_)
SumBlocks(qs) == IF qs = <<>> THEN 0 ELSE BlocksOf(Head(qs)) + 1 + SumBlocks(Tail(qs))

\* C7: a saved document is the template's blocks, then one header paragraph,
\* then per question, in store order, its blocks (Text 1, Match 2, Table 2,
\* Image 2, and 1 more for a non-empty caption) and one empty paragraph.
C7_BlockCount ==
    download_offered =>
        /\ Len(buffer) = TemplateLen + 1 + SumBlocks(questions)
        /\ SubSeq(buffer, 1, TemplateLen) = uploaded_template.body
        /\ Appended # <<>>
        /\ Head(Appended) = [kind |-> "p", text |-> QuestionsHeader]
        /\ IsSeparator(buffer[Len(buffer)])
        /\ Len(Entries) = Len(questions)
        /\ \A k \in 1..Len(Entries) : Len(Entries[k]) = BlocksOf(questions[k])

\* a saved document with an image without a caption and one with a caption
C7_Witness ==
    /\ download_offered
    /\ \E k \in 1..Len(questions) :
          questions[k].type = "image" /\ questions[k].caption = <<>>
    /\ \E k \in 1..Len(questions) :
          questions[k].type = "image" /\ questions[k].caption # <<>>

\* one run's effect on the store, as C8 allows it
StoreStep ==
    /\ \/ questions' = questions
       \/ questions' = <<>>
       \/ /\ Len(questions') = Len(questions) + 1
          /\ SubSeq(questions', 1, Len(questions)) = questions
    /\ ( \/ uploaded_template' # uploaded_template
         \/ q_type' # q_type
         \/ img_caption' # img_caption
         \/ telugu_text' # telugu_text
         \/ warning' # ""
         \/ error' # ""
         \/ doc' # <<>>
         \/ download_offered' ) => questions' = questions

\* C8: the store starts empty; a run either leaves it as it is, empties it, or
\* adds one question at its end; a run that changes the selector, the template,
\* the caption or the conversion text, that warns, that raises or that generates
\* the document leaves it as it is.
C8_StoreAppendOrClear == (questions = <<>>) /\ [][StoreStep]_vars

\* the document was generated from a full store, which is still there
C8_Witness ==
    /\ download_offered
    /\ Len(questions) = MaxQuestions
    /\ questions[1] # questions[2]

\* a response of the expected shape: ["SUCCESS", [[input, [candidate, ...], ...], ...], ...]
IsList(x, n) == x.t = "list" /\ Len(x.v) >= n
WellFormedSuccess(o) ==
    /\ o.kind = "json"
    /\ IsList(o.body, 2)
    /\ PyEq(o.body.v[1], SUCCESS)
    /\ IsList(o.body.v[2], 1)
    /\ IsList(o.body.v[2].v[1], 2)
    /\ IsList(o.body.v[2].v[1].v[2], 1)
    /\ o.body.v[2].v[1].v[2].v[1].t = "str"

\* C9: english_to_telugu never raises; it returns its argument on a network
\* error, on a response that cannot be parsed or has not the expected shape, and
\* on a status other than SUCCESS; only a well-formed SUCCESS response gives the
\* first candidate of its first payload.
C9_FallbackOnFailure ==
    tl_called =>
        /\ tl_result.t # "raised"
        /\ ~WellFormedSuccess(tl_outcome) => PyEq(tl_result, JStr(tl_text))
        /\ WellFormedSuccess(tl_outcome) =>
              PyEq(tl_result, tl_outcome.body.v[2].v[1].v[2].v[1])

\* C10: every Match question that Add Question has placed in the store has a
\* non-empty left and a non-empty right item list (the lines of the input, the
\* blank ones dropped), so that its table has at least one row.
C10_MatchListsNonEmpty ==
    \A k \in 1..Len(questions) :
        questions[k].type = "match" =>
            questions[k].left # <<>> /\ questions[k].right # <<>>

====
